---- MODULE Spec2Model ----
(***************************************************************************)
(* QR attendance backend (backend/server.py): the session / challenge /    *)
(* attendance state machine and the role checks that gate it.              *)
(*                                                                         *)
(* Collections of the document store are sequences in insertion order;     *)
(* find_one returns the first matching document of a collection scan.      *)
(* Time is counted in minutes.                                             *)
(***************************************************************************)
EXTENDS Integers, Sequences, FiniteSets, TLC

VARIABLES
    users,          \* db.users
    departments,    \* db.departments
    classes,        \* db.classes
    schedules,      \* db.schedules
    qr_sessions,    \* db.qr_sessions
    otp_requests,   \* db.otp_requests
    attendance,     \* db.attendance
    tasks,          \* background_tasks: queued send_otp_email calls
    now,            \* datetime.now(timezone.utc), in minutes
    last,           \* the request just handled and its response, until delivered
    procs,          \* requests in flight (handlers suspended at an await)
    served,         \* number of requests taken so far
    tokens,         \* the bearer tokens issued so far
    mailbox         \* the mails send_otp_email has sent

vars == <<users, departments, classes, schedules, qr_sessions, otp_requests,
          attendance, tasks, now, last, procs, served, tokens, mailbox>>

stores == <<users, departments, classes, schedules, qr_sessions, otp_requests,
            attendance, tasks>>

------------------------------------------------------------------------------
(* Bounds of the model *)

MaxSessions == 1
MaxOtp == 3
MaxTime == 20
MaxRecords == 4
MaxRequests == 4
MaxUsers == 7
MaxClock == 2160

(* Program constants *)

SESSION_MINUTES == 15
OTP_MINUTES == 5
ACCESS_TOKEN_EXPIRE_MINUTES == 1440

\* The clock of the model advances in steps of one challenge lifetime.
TickMinutes == OTP_MINUTES

None == "none"

SUPERADMIN == "superadmin"
SUBADMIN == "subadmin"
CLASS_TEACHER == "class_teacher"
SUB_TEACHER == "sub_teacher"
STUDENT == "student"

UserRole == {SUPERADMIN, SUBADMIN, CLASS_TEACHER, SUB_TEACHER, STUDENT}

ClassIds == {"c1", "c2"}
Subjects == {"Mathematics"}
Codes == {"482913", "000042"}
SessionIds == 1..(MaxSessions + 1)

------------------------------------------------------------------------------
(* The document store *)

\* Index of the first document of coll that satisfies Match, 0 when none does.
find_one(coll, Match(_)) ==
    IF \E i \in 1..Len(coll) : Match(coll[i])
    THEN CHOOSE i \in 1..Len(coll) :
             Match(coll[i]) /\ \A j \in 1..(i - 1) : ~Match(coll[j])
    ELSE 0

insert_one(coll, doc) == Append(coll, doc)

------------------------------------------------------------------------------
(* Accounts *)

User(id, email, role, class_id, roll_no, hashed_password) ==
    [id |-> id, email |-> email, role |-> role, class_id |-> class_id,
     roll_no |-> roll_no, hashed_password |-> hashed_password]

get_password_hash(password) == "sha256:" \o password

DefaultAdmin ==
    User("admin", "admin@school.com", SUPERADMIN, None, None,
         get_password_hash("admin123"))

\* The accounts of one class at work: its teacher, one of its students and a
\* student of another class.
Staffed ==
    << User("t1", "t1@school.com", CLASS_TEACHER, "c1", None, get_password_hash("pw")),
       User("s1", "s1@school.com", STUDENT, "c1", "CS0001", None),
       User("s3", "s3@school.com", STUDENT, "c2", "EE0001", None) >>

Accounts == {users[i] : i \in 1..Len(users)}

Students == {u \in Accounts : u.role = STUDENT}

require_role_unchecked(current_user, allowed_roles) == TRUE

\* require_role: the caller's role is one of the allowed roles.
require_role(current_user, allowed_roles) == current_user.role \in allowed_roles

\* A request (operation, caller id, arguments) and the response it got.
Response(op, user, req, status, detail) ==
    [op |-> op, user |-> user, req |-> req, status |-> status, detail |-> detail]

Forbidden_as_not_found(op, user, req) == Response(op, user, req, 404, "Not found")

Forbidden(op, user, req) == Response(op, user, req, 403, "Not enough permissions")

\* No response is waiting to be delivered.
Idle == Response("idle", None, None, 0, None)

NoProcs == [p \in {} |-> 0]

------------------------------------------------------------------------------
(* POST /qr/generate *)

QRSession(id, class_id, teacher_id, subject, qr_data, expires_at, created_at) ==
    [id |-> id, class_id |-> class_id, teacher_id |-> teacher_id,
     subject |-> subject, qr_data |-> qr_data, expires_at |-> expires_at,
     created_at |-> created_at]

not_assigned_unchecked(current_user, class_id) == FALSE

\* The teacher of a class may issue sessions for that class only.
not_assigned(current_user, class_id) ==
    current_user.role = CLASS_TEACHER /\ current_user.class_id # class_id

session_expires_at_short(t) == t + OTP_MINUTES

session_expires_at(t) == t + SESSION_MINUTES

\* A string as the sequence of its pieces between the occurrences of ":",
\* the occurrences kept.  "c:1" is the one identifier of the model with a ":".
Pieces(str) == IF str = "c:1" THEN <<"c", ":", "1">> ELSE <<str>>

\* f"attendance:{session_id}:{class_id}:{current_user.id}"
qr_data(session_id, class_id, user_id) ==
    <<"attendance", ":">> \o Pieces(ToString(session_id)) \o <<":">>
        \o Pieces(class_id) \o <<":">> \o Pieces(user_id)

generate_qr_session(current_user, class_id, subject) ==
    LET req == [class_id |-> class_id, subject |-> subject]
        session_id == Len(qr_sessions) + 1
        qr_session == QRSession(session_id, class_id, current_user.id, subject,
                                qr_data(session_id, class_id, current_user.id),
                                session_expires_at(now), now)
    IN  IF ~require_role(current_user, {CLASS_TEACHER, SUB_TEACHER})
        THEN /\ last' = Forbidden("generate", current_user.id, req)
             /\ UNCHANGED <<stores, now, procs>>
        ELSE IF not_assigned(current_user, class_id)
        THEN /\ last' = Response("generate", current_user.id, req, 403,
                                 "Not assigned to this class")
             /\ UNCHANGED <<stores, now, procs>>
        ELSE /\ Len(qr_sessions) < MaxSessions
             /\ qr_sessions' = insert_one(qr_sessions, qr_session)
             /\ last' = Response("generate", current_user.id,
                                 [class_id |-> class_id, subject |-> subject,
                                  session_id |-> session_id,
                                  expires_at |-> qr_session.expires_at],
                                 200, "OK")
             /\ UNCHANGED <<users, departments, classes, schedules, otp_requests,
                            attendance, tasks, now, procs>>

------------------------------------------------------------------------------
(* POST /attendance/scan *)

OTPRequest(student_id, qr_session_id, otp, expires_at, created_at) ==
    [student_id |-> student_id, qr_session_id |-> qr_session_id, otp |-> otp,
     expires_at |-> expires_at, verified |-> FALSE, created_at |-> created_at]

session_expired_inverted(qr_session, t) == t < qr_session.expires_at

session_expired(qr_session, t) == t > qr_session.expires_at

not_enrolled_unchecked(current_user, qr_session) == FALSE

not_enrolled(current_user, qr_session) ==
    current_user.class_id # qr_session.class_id

existing_attendance_unchecked(att, current_user, qr_session_id) == 0

\* Index of the caller's attendance document for the session, 0 when none.
existing_attendance(att, current_user, qr_session_id) ==
    find_one(att, LAMBDA d : /\ d.student_id = current_user.id
                             /\ d.qr_session_id = qr_session_id)

otp_expires_at_long(t) == t + SESSION_MINUTES

otp_expires_at(t) == t + OTP_MINUTES

find_session(sessions, qr_session_id) ==
    find_one(sessions, LAMBDA d : d.id = qr_session_id)

scan_qr_code_enrolment_first(current_user, qr_session_id, otp) ==
    LET req == [qr_session_id |-> qr_session_id]
        s == find_session(qr_sessions, qr_session_id)
        fail(status, detail) ==
            /\ last' = Response("scan", current_user.id, req, status, detail)
            /\ UNCHANGED <<stores, now, procs>>
    IN  IF ~require_role(current_user, {STUDENT})
        THEN /\ last' = Forbidden("scan", current_user.id, req)
             /\ UNCHANGED <<stores, now, procs>>
        ELSE IF s = 0 THEN fail(404, "Invalid QR code")
        ELSE IF not_enrolled(current_user, qr_sessions[s])
        THEN fail(403, "Not enrolled in this class")
        ELSE IF session_expired(qr_sessions[s], now)
        THEN fail(400, "QR code has expired")
        ELSE IF existing_attendance(attendance, current_user, qr_session_id) # 0
        THEN fail(400, "Attendance already marked")
        ELSE /\ Len(otp_requests) < MaxOtp
             /\ otp_requests' =
                    insert_one(otp_requests,
                               OTPRequest(current_user.id, qr_session_id, otp,
                                          otp_expires_at(now), now))
             /\ tasks' = Append(tasks, [email |-> current_user.email, otp |-> otp])
             /\ last' = Response("scan", current_user.id,
                                 [qr_session_id |-> qr_session_id, otp |-> otp],
                                 200, "OTP sent to your email")
             /\ UNCHANGED <<users, departments, classes, schedules, qr_sessions,
                            attendance, now, procs>>

scan_qr_code(current_user, qr_session_id, otp) ==
    LET req == [qr_session_id |-> qr_session_id]
        s == find_session(qr_sessions, qr_session_id)
        fail(status, detail) ==
            /\ last' = Response("scan", current_user.id, req, status, detail)
            /\ UNCHANGED <<stores, now, procs>>
    IN  IF ~require_role(current_user, {STUDENT})
        THEN /\ last' = Forbidden("scan", current_user.id, req)
             /\ UNCHANGED <<stores, now, procs>>
        ELSE IF s = 0 THEN fail(404, "Invalid QR code")
        ELSE IF session_expired(qr_sessions[s], now)
        THEN fail(400, "QR code has expired")
        ELSE IF not_enrolled(current_user, qr_sessions[s])
        THEN fail(403, "Not enrolled in this class")
        ELSE IF existing_attendance(attendance, current_user, qr_session_id) # 0
        THEN fail(400, "Attendance already marked")
        ELSE /\ Len(otp_requests) < MaxOtp
             /\ otp_requests' =
                    insert_one(otp_requests,
                               OTPRequest(current_user.id, qr_session_id, otp,
                                          otp_expires_at(now), now))
             /\ tasks' = Append(tasks, [email |-> current_user.email, otp |-> otp])
             /\ last' = Response("scan", current_user.id,
                                 [qr_session_id |-> qr_session_id, otp |-> otp],
                                 200, "OTP sent to your email")
             /\ UNCHANGED <<users, departments, classes, schedules, qr_sessions,
                            attendance, now, procs>>

------------------------------------------------------------------------------
(* POST /attendance/verify *)

Attendance(student_id, class_id, teacher_id, subject, date, qr_session_id) ==
    [student_id |-> student_id, class_id |-> class_id, teacher_id |-> teacher_id,
     subject |-> subject, date |-> date, status |-> "present",
     qr_session_id |-> qr_session_id]

otp_filter_any_student(d, current_user, qr_session_id, otp) ==
    /\ d.qr_session_id = qr_session_id
    /\ d.otp = otp
    /\ d.verified = FALSE

\* The filter of the challenge lookup.
otp_filter(d, current_user, qr_session_id, otp) ==
    /\ d.student_id = current_user.id
    /\ d.qr_session_id = qr_session_id
    /\ d.otp = otp
    /\ d.verified = FALSE

find_otp_request(otps, current_user, qr_session_id, otp) ==
    find_one(otps, LAMBDA d : otp_filter(d, current_user, qr_session_id, otp))

otp_expired_inverted(otp_obj, t) == t < otp_obj.expires_at

otp_expired(otp_obj, t) == t > otp_obj.expires_at

mark_verified_deleting(otps, i) ==
    SubSeq(otps, 1, i - 1) \o SubSeq(otps, i + 1, Len(otps))

\* update_one({"_id": ...}, {"$set": {"verified": True}})
mark_verified(otps, i) == [otps EXCEPT ![i].verified = TRUE]

mark_attendance(current_user, qr_session_obj, qr_session_id, t) ==
    Attendance(current_user.id, qr_session_obj.class_id, qr_session_obj.teacher_id,
               qr_session_obj.subject, t, qr_session_id)

verify_otp(current_user, qr_session_id, otp) ==
    LET req == [qr_session_id |-> qr_session_id, otp |-> otp]
        i == find_otp_request(otp_requests, current_user, qr_session_id, otp)
        s == find_session(qr_sessions, qr_session_id)
        fail(status, detail) ==
            /\ last' = Response("verify", current_user.id, req, status, detail)
            /\ UNCHANGED <<stores, now, procs>>
    IN  IF ~require_role(current_user, {STUDENT})
        THEN /\ last' = Forbidden("verify", current_user.id, req)
             /\ UNCHANGED <<stores, now, procs>>
        ELSE IF i = 0 THEN fail(400, "Invalid OTP")
        ELSE IF otp_expired(otp_requests[i], now) THEN fail(400, "OTP has expired")
        \* QRSession(**None) raises: the request ends in an unhandled error
        ELSE IF s = 0 THEN fail(500, "Internal Server Error")
        ELSE /\ attendance' =
                    insert_one(attendance,
                               mark_attendance(current_user, qr_sessions[s],
                                               qr_session_id, now))
             /\ otp_requests' = mark_verified(otp_requests, i)
             /\ last' = Response("verify", current_user.id, req, 200,
                                 "Attendance marked successfully")
             /\ UNCHANGED <<users, departments, classes, schedules, qr_sessions,
                            tasks, now, procs>>

------------------------------------------------------------------------------
(* POST /departments, /classes, /schedules *)

\* str(uuid.uuid4()): an identifier no stored document carries yet.
uuid4(prefix, coll) == prefix \o ToString(Len(coll) + 1)

Department(id, name, created_by) ==
    [id |-> id, name |-> name, created_by |-> created_by]

create_department(current_user, name) ==
    LET req == [name |-> name]
        department == Department(uuid4("d", departments), name, current_user.id)
    IN  IF ~require_role(current_user, {SUPERADMIN})
        THEN /\ last' = Forbidden("create_department", current_user.id, req)
             /\ UNCHANGED <<stores, now, procs>>
        ELSE /\ departments' = insert_one(departments, department)
             /\ last' = Response("create_department", current_user.id, req, 200, "OK")
             /\ UNCHANGED <<users, classes, schedules, qr_sessions, otp_requests,
                            attendance, tasks, now, procs>>

Class(id, name, department_id, created_by) ==
    [id |-> id, name |-> name, department_id |-> department_id,
     created_by |-> created_by]

find_department(depts, department_id) ==
    find_one(depts, LAMBDA d : d.id = department_id)

create_class(current_user, name, department_id) ==
    LET req == [name |-> name, department_id |-> department_id]
        class_obj == Class(uuid4("c", classes), name, department_id, current_user.id)
    IN  IF ~require_role(current_user, {SUBADMIN})
        THEN /\ last' = Forbidden("create_class", current_user.id, req)
             /\ UNCHANGED <<stores, now, procs>>
        ELSE IF find_department(departments, department_id) = 0
        THEN /\ last' = Response("create_class", current_user.id, req, 404,
                                 "Department not found")
             /\ UNCHANGED <<stores, now, procs>>
        ELSE /\ classes' = insert_one(classes, class_obj)
             /\ last' = Response("create_class", current_user.id, req, 200, "OK")
             /\ UNCHANGED <<users, departments, schedules, qr_sessions,
                            otp_requests, attendance, tasks, now, procs>>

Schedule(class_id, teacher_id, subject) ==
    [class_id |-> class_id, teacher_id |-> teacher_id, subject |-> subject]

create_schedule(current_user, schedule_data) ==
    IF ~require_role(current_user, {SUBADMIN})
    THEN /\ last' = Forbidden("create_schedule", current_user.id, schedule_data)
         /\ UNCHANGED <<stores, now, procs>>
    ELSE /\ schedules' = insert_one(schedules, schedule_data)
         /\ last' = Response("create_schedule", current_user.id, schedule_data,
                             200, "OK")
         /\ UNCHANGED <<users, departments, classes, qr_sessions, otp_requests,
                        attendance, tasks, now, procs>>

------------------------------------------------------------------------------
(* POST /auth/register, POST /students *)

UserCreate(email, password, role, class_id, roll_no) ==
    [email |-> email, password |-> password, role |-> role,
     class_id |-> class_id, roll_no |-> roll_no]

find_by_email(us, email) == find_one(us, LAMBDA d : d.email = email)

register_user(current_user, user_data) ==
    LET user_obj == User(uuid4("u", users), user_data.email, user_data.role,
                         user_data.class_id, user_data.roll_no,
                         get_password_hash(user_data.password))
    IN  IF ~require_role(current_user, {SUPERADMIN, SUBADMIN})
        THEN /\ last' = Forbidden("register", current_user.id, user_data)
             /\ UNCHANGED <<stores, now, procs>>
        ELSE IF find_by_email(users, user_data.email) # 0
        THEN /\ last' = Response("register", current_user.id, user_data, 400,
                                 "Email already registered")
             /\ UNCHANGED <<stores, now, procs>>
        ELSE /\ users' = insert_one(users, user_obj)
             /\ last' = Response("register", current_user.id, user_data, 200, "OK")
             /\ UNCHANGED <<departments, classes, schedules, qr_sessions,
                            otp_requests, attendance, tasks, now, procs>>

add_student_as_requested(current_user, student_data) ==
    LET user_obj == User(uuid4("u", users), student_data.email, student_data.role,
                         student_data.class_id, student_data.roll_no,
                         get_password_hash(student_data.password))
    IN  IF ~require_role(current_user, {CLASS_TEACHER})
        THEN /\ last' = Forbidden("add_student", current_user.id, student_data)
             /\ UNCHANGED <<stores, now, procs>>
        ELSE IF find_by_email(users, student_data.email) # 0
        THEN /\ last' = Response("add_student", current_user.id, student_data, 400,
                                 "Student already exists")
             /\ UNCHANGED <<stores, now, procs>>
        ELSE /\ users' = insert_one(users, user_obj)
             /\ last' = Response("add_student", current_user.id, student_data,
                                 200, "OK")
             /\ UNCHANGED <<departments, classes, schedules, qr_sessions,
                            otp_requests, attendance, tasks, now, procs>>

add_student(current_user, student_data) ==
    LET user_obj == User(uuid4("u", users), student_data.email, STUDENT,
                         current_user.class_id, student_data.roll_no, None)
    IN  IF ~require_role(current_user, {CLASS_TEACHER})
        THEN /\ last' = Forbidden("add_student", current_user.id, student_data)
             /\ UNCHANGED <<stores, now, procs>>
        ELSE IF find_by_email(users, student_data.email) # 0
        THEN /\ last' = Response("add_student", current_user.id, student_data, 400,
                                 "Student already exists")
             /\ UNCHANGED <<stores, now, procs>>
        ELSE /\ users' = insert_one(users, user_obj)
             /\ last' = Response("add_student", current_user.id, student_data,
                                 200, "OK")
             /\ UNCHANGED <<departments, classes, schedules, qr_sessions,
                            otp_requests, attendance, tasks, now, procs>>

------------------------------------------------------------------------------
(* Bearer tokens: POST /auth/login, POST /auth/student-login and the       *)
(* validation every protected operation starts with                        *)

SECRET_KEY == "secret-key"

\* jwt.encode: the claims and a signature over them under the key.
jwt_encode(claims, key) ==
    [sub |-> claims.sub, exp |-> claims.exp, sig |-> <<key, claims.sub, claims.exp>>]

create_access_token(sub, t) ==
    jwt_encode([sub |-> sub, exp |-> t + ACCESS_TOKEN_EXPIRE_MINUTES], SECRET_KEY)

jwt_decode_no_expiry(token, key, t) == token.sig = <<key, token.sub, token.exp>>

\* jwt.decode succeeds: the signature is the key's signature over the claims
\* and the expiry has not passed; otherwise it raises JWTError.
jwt_decode(token, key, t) ==
    /\ token.sig = <<key, token.sub, token.exp>>
    /\ ~(token.exp < t)

\* Index of the account the token names, 0 when the request is answered 401.
get_current_user(us, token, t) ==
    IF ~jwt_decode(token, SECRET_KEY, t) THEN 0
    ELSE IF token.sub = None THEN 0
    ELSE find_one(us, LAMBDA d : d.id = token.sub)

Unauthorized(op, token) ==
    Response(op, None, [token |-> token], 401, "Could not validate credentials")

Token(access_token, user) ==
    [access_token |-> access_token, token_type |-> "bearer", user |-> user.id]

\* user["hashed_password"] of an account stored without that key raises
\* KeyError: the request ends in an unhandled error.
login(email, password) ==
    LET req == [email |-> email, password |-> password]
        i == find_by_email(users, email)
        fail(status, detail) ==
            /\ last' = Response("login", None, req, status, detail)
            /\ UNCHANGED <<stores, now, procs, tokens>>
    IN  IF i = 0 THEN fail(401, "Incorrect email or password")
        ELSE IF users[i].hashed_password = None
        THEN fail(500, "Internal Server Error")
        ELSE IF get_password_hash(password) # users[i].hashed_password
        THEN fail(401, "Incorrect email or password")
        ELSE /\ tokens' = tokens \cup {create_access_token(users[i].id, now)}
             /\ last' = Response("login", None, req, 200,
                                 Token(create_access_token(users[i].id, now), users[i]))
             /\ UNCHANGED <<stores, now, procs>>

student_filter_any_roll(d, roll_no, email) == d.email = email /\ d.role = STUDENT

\* The filter of the student lookup.
student_filter(d, roll_no, email) ==
    d.roll_no = roll_no /\ d.email = email /\ d.role = STUDENT

student_login(roll_no, email) ==
    LET req == [roll_no |-> roll_no, email |-> email]
        i == find_one(users, LAMBDA d : student_filter(d, roll_no, email))
    IN  IF i = 0
        THEN /\ last' = Response("student_login", None, req, 401,
                                 "Invalid roll number or email")
             /\ UNCHANGED <<stores, now, procs, tokens>>
        ELSE /\ tokens' = tokens \cup {create_access_token(users[i].id, now)}
             /\ last' = Response("student_login", None, req, 200,
                                 Token(create_access_token(users[i].id, now), users[i]))
             /\ UNCHANGED <<stores, now, procs>>

\* GET /auth/me
get_current_user_info(token) ==
    LET i == get_current_user(users, token, now)
    IN  /\ last' = IF i = 0 THEN Unauthorized("me", token)
                   ELSE Response("me", users[i].id, [token |-> token], 200, "OK")
        /\ UNCHANGED <<stores, now, procs, tokens>>

------------------------------------------------------------------------------
(* Time *)

Tick ==
    /\ last.op = "idle"
    /\ now + TickMinutes <= MaxTime
    /\ now' = now + TickMinutes
    /\ UNCHANGED <<stores, last, procs, served, tokens, mailbox>>

\* The response goes back to the client; the next request may be taken.
Deliver ==
    /\ last.op # "idle"
    /\ last' = Idle
    /\ UNCHANGED <<stores, now, procs, served, tokens, mailbox>>

------------------------------------------------------------------------------
(* The attendance workflow, one request at a time, on a staffed installation *)

Init ==
    /\ users = Staffed
    /\ departments = <<>>
    /\ classes = <<>>
    /\ schedules = <<>>
    /\ qr_sessions = <<>>
    /\ otp_requests = <<>>
    /\ attendance = <<>>
    /\ tasks = <<>>
    /\ now = 0
    /\ last = Idle
    /\ procs = NoProcs
    /\ served = 0
    /\ tokens = {}
    /\ mailbox = {}

Issue ==
    /\ last.op = "idle"
    /\ \E u \in Accounts, c \in ClassIds, sub \in Subjects :
           generate_qr_session(u, c, sub)
    /\ UNCHANGED <<served, tokens, mailbox>>

Scan ==
    /\ last.op = "idle"
    /\ \E u \in Accounts, sid \in SessionIds, otp \in Codes :
           scan_qr_code(u, sid, otp)
    /\ UNCHANGED <<served, tokens, mailbox>>

Verify ==
    /\ last.op = "idle"
    /\ \E u \in Accounts, sid \in SessionIds, otp \in Codes :
           verify_otp(u, sid, otp)
    /\ UNCHANGED <<served, tokens, mailbox>>

Next == Issue \/ Scan \/ Verify \/ Tick \/ Deliver

Spec == Init /\ [][Next]_vars

------------------------------------------------------------------------------
(* Requests in flight.  A handler runs up to its next await in one step: *)
(* the store operation it awaited, then the code that follows it.        *)

ProcIds == {1, 2}

NoResp == Response("none", None, None, 0, None)

IdleProc ==
    [pc |-> "idle", op |-> None, user |-> None, req |-> None, otp_id |-> 0,
     doc |-> None, resp |-> NoResp, overlapped |-> FALSE]

InFlight(p) == procs[p].pc # "idle"

\* Process p takes a request while the processes in Others are in flight.
Begin(p, op, current_user, req) ==
    [q \in DOMAIN procs |->
        IF q = p
        THEN [IdleProc EXCEPT !.op = op, !.user = current_user, !.req = req,
                              !.overlapped = \E r \in DOMAIN procs \ {p} : InFlight(r)]
        ELSE IF InFlight(q) THEN [procs[q] EXCEPT !.overlapped = TRUE]
        ELSE procs[q]]

\* The request of p ends with a response.
Return(ps, p, status, detail) ==
    [ps EXCEPT ![p].pc = "idle",
               ![p].resp = Response(ps[p].op, ps[p].user.id, ps[p].req,
                                    status, detail)]

Suspend(ps, p, pc) == [ps EXCEPT ![p].pc = pc]

\* verify_otp up to the lookup of the session: the role check, the lookup of
\* the challenge and the expiry test.
verify_find(p, current_user, qr_session_id, otp) ==
    LET req == [qr_session_id |-> qr_session_id, otp |-> otp]
        ps == Begin(p, "verify", current_user, req)
        i == find_otp_request(otp_requests, current_user, qr_session_id, otp)
    IN  /\ ~InFlight(p)
        /\ procs' =
              IF ~require_role(current_user, {STUDENT})
              THEN Return(ps, p, 403, "Not enough permissions")
              ELSE IF i = 0 THEN Return(ps, p, 400, "Invalid OTP")
              ELSE IF otp_expired(otp_requests[i], now)
              THEN Return(ps, p, 400, "OTP has expired")
              ELSE Suspend([ps EXCEPT ![p].otp_id = i], p, "v_session")
        /\ UNCHANGED <<stores, now, last>>

\* The lookup of the session and the construction of the attendance document.
verify_session(p) ==
    LET s == find_session(qr_sessions, procs[p].req.qr_session_id)
    IN  /\ procs[p].pc = "v_session"
        /\ procs' =
              IF s = 0 THEN Return(procs, p, 500, "Internal Server Error")
              ELSE Suspend([procs EXCEPT ![p].doc =
                                mark_attendance(procs[p].user, qr_sessions[s],
                                                procs[p].req.qr_session_id, now)],
                           p, "v_insert")
        /\ UNCHANGED <<stores, now, last>>

\* db.attendance.insert_one
verify_insert(p) ==
    /\ procs[p].pc = "v_insert"
    /\ Len(attendance) < MaxRecords
    /\ attendance' = insert_one(attendance, procs[p].doc)
    /\ procs' = Suspend(procs, p, "v_update")
    /\ UNCHANGED <<users, departments, classes, schedules, qr_sessions,
                   otp_requests, tasks, now, last>>

\* db.otp_requests.update_one and the response
verify_update(p) ==
    /\ procs[p].pc = "v_update"
    /\ otp_requests' = mark_verified(otp_requests, procs[p].otp_id)
    /\ procs' = Return(procs, p, 200, "Attendance marked successfully")
    /\ UNCHANGED <<users, departments, classes, schedules, qr_sessions,
                   attendance, tasks, now, last>>

\* scan_qr_code up to the lookup of the attendance document: the role check,
\* the lookup of the session, the expiry test and the enrolment test.
scan_find(p, current_user, qr_session_id) ==
    LET req == [qr_session_id |-> qr_session_id]
        ps == Begin(p, "scan", current_user, req)
        s == find_session(qr_sessions, qr_session_id)
    IN  /\ ~InFlight(p)
        /\ procs' =
              IF ~require_role(current_user, {STUDENT})
              THEN Return(ps, p, 403, "Not enough permissions")
              ELSE IF s = 0 THEN Return(ps, p, 404, "Invalid QR code")
              ELSE IF session_expired(qr_sessions[s], now)
              THEN Return(ps, p, 400, "QR code has expired")
              ELSE IF not_enrolled(current_user, qr_sessions[s])
              THEN Return(ps, p, 403, "Not enrolled in this class")
              ELSE Suspend(ps, p, "s_attendance")
        /\ UNCHANGED <<stores, now, last>>

\* The lookup of the attendance document and the construction of the challenge.
scan_attendance(p, otp) ==
    LET qr_session_id == procs[p].req.qr_session_id
    IN  /\ procs[p].pc = "s_attendance"
        /\ procs' =
              IF existing_attendance(attendance, procs[p].user, qr_session_id) # 0
              THEN Return(procs, p, 400, "Attendance already marked")
              ELSE Suspend([procs EXCEPT ![p].doc =
                                OTPRequest(procs[p].user.id, qr_session_id, otp,
                                           otp_expires_at(now), now)],
                           p, "s_insert")
        /\ UNCHANGED <<stores, now, last>>

\* db.otp_requests.insert_one, the queueing of the mail and the response
scan_insert(p) ==
    /\ procs[p].pc = "s_insert"
    /\ Len(otp_requests) < MaxOtp
    /\ otp_requests' = insert_one(otp_requests, procs[p].doc)
    /\ tasks' = Append(tasks, [email |-> procs[p].user.email,
                               otp |-> procs[p].doc.otp])
    /\ procs' = Return(procs, p, 200, "OTP sent to your email")
    /\ UNCHANGED <<users, departments, classes, schedules, qr_sessions,
                   attendance, now, last>>

\* The store operation a request awaits fails (or the server stops): the
\* request ends in an error and what it has written stays written.
store_failure(p) ==
    /\ InFlight(p)
    /\ procs' = Return(procs, p, 500, "Internal Server Error")
    /\ UNCHANGED <<stores, now, last>>

------------------------------------------------------------------------------
(* Concurrent requests of the students on a session that has just been issued *)

IssuedSession ==
    QRSession(1, "c1", "t1", "Mathematics", qr_data(1, "c1", "t1"),
              session_expires_at(0), 0)

InitStores ==
    /\ users = Staffed
    /\ departments = <<>>
    /\ classes = <<>>
    /\ schedules = <<>>
    /\ qr_sessions = <<IssuedSession>>
    /\ otp_requests = <<>>
    /\ attendance = <<>>
    /\ tasks = <<>>
    /\ now = 0
    /\ last = Idle
    /\ served = 0
    /\ tokens = {}
    /\ mailbox = {}

InitConc == InitStores /\ procs = [p \in ProcIds |-> IdleProc]

ScanFind(p) == \E u \in Students, sid \in SessionIds : scan_find(p, u, sid)

ScanAttendance(p) == \E otp \in Codes : scan_attendance(p, otp)

VerifyFind(p) ==
    \E u \in Students, sid \in SessionIds, otp \in Codes : verify_find(p, u, sid, otp)

Step(p) ==
    \/ ScanFind(p)
    \/ ScanAttendance(p)
    \/ scan_insert(p)
    \/ VerifyFind(p)
    \/ verify_session(p)
    \/ verify_insert(p)
    \/ verify_update(p)

NextConc == (\E p \in DOMAIN procs : Step(p)) /\ UNCHANGED <<served, tokens, mailbox>>

SpecConc == InitConc /\ [][NextConc]_vars

------------------------------------------------------------------------------
(* One request at a time, any of whose store operations may fail *)

InitFail == InitStores /\ procs = [p \in {1} |-> IdleProc]

NextFail ==
    (\E p \in DOMAIN procs : Step(p) \/ store_failure(p)) /\ UNCHANGED <<served, tokens, mailbox>>

SpecFail == InitFail /\ [][NextFail]_vars

------------------------------------------------------------------------------
(* A session document leaves the store.  No handler removes one; whoever   *)
(* administers the database can.                                          *)

\* The sequence without its k-th element.
without(queue, k) == SubSeq(queue, 1, k - 1) \o SubSeq(queue, k + 1, Len(queue))

Requests == (\E p \in DOMAIN procs : Step(p)) /\ UNCHANGED <<served, tokens, mailbox>>

session_removed(k) ==
    /\ k \in 1..Len(qr_sessions)
    /\ qr_sessions' = without(qr_sessions, k)
    /\ UNCHANGED <<users, departments, classes, schedules, otp_requests,
                   attendance, tasks, now, last, procs, served, tokens, mailbox>>

Removals == \E k \in 1..Len(qr_sessions) : session_removed(k)

NextVanish == Requests \/ Removals

SpecVanish == InitFail /\ [][NextVanish]_vars

------------------------------------------------------------------------------
(* The background tasks.  A queued send_otp_email call runs after the     *)
(* response of its request has been sent, or is lost with the server.     *)

\* send_otp_email runs and returns True: the mail is sent.
send_otp_email(k) ==
    /\ k \in 1..Len(tasks)
    /\ mailbox' = mailbox \cup {tasks[k]}
    /\ tasks' = without(tasks, k)
    /\ UNCHANGED <<users, departments, classes, schedules, qr_sessions,
                   otp_requests, attendance, now, last, procs, served, tokens>>

send_fails_propagating(k) ==
    /\ k \in 1..Len(tasks)
    /\ tasks' = without(tasks, k)
    /\ otp_requests' = SelectSeq(otp_requests, LAMBDA d : d.otp # tasks[k].otp)
    /\ UNCHANGED <<users, departments, classes, schedules, qr_sessions,
                   attendance, now, last, procs, served, tokens, mailbox>>

\* The call raises, or the server stops before it runs: no mail is sent and
\* nobody is told.
send_fails(k) ==
    /\ k \in 1..Len(tasks)
    /\ tasks' = without(tasks, k)
    /\ UNCHANGED <<users, departments, classes, schedules, qr_sessions,
                   otp_requests, attendance, now, last, procs, served, tokens,
                   mailbox>>

Sends == \E k \in 1..Len(tasks) : send_otp_email(k)

SendFailures == \E k \in 1..Len(tasks) : send_fails(k)

NextNotify == Requests \/ Sends \/ SendFailures

SpecNotify == InitFail /\ [][NextNotify]_vars

------------------------------------------------------------------------------
(* Every operation that writes, for callers of every role, one request at *)
(* a time, on an installation whose staff and first student are registered *)

Staff ==
    << DefaultAdmin,
       User("sub", "sub@school.com", SUBADMIN, None, None, get_password_hash("pw")),
       User("t1", "t1@school.com", CLASS_TEACHER, "c1", None, get_password_hash("pw")),
       User("a1", "a1@school.com", SUB_TEACHER, None, None, get_password_hash("pw")),
       User("s1", "s1@school.com", STUDENT, "c1", "CS0001", None) >>

InitOrg ==
    /\ users = Staff
    /\ departments = <<>>
    /\ classes = <<>>
    /\ schedules = <<>>
    /\ qr_sessions = <<>>
    /\ otp_requests = <<>>
    /\ attendance = <<>>
    /\ tasks = <<>>
    /\ now = 0
    /\ last = Idle
    /\ procs = NoProcs
    /\ served = 0
    /\ tokens = {}
    /\ mailbox = {}

DepartmentIds == {"d1", "d9"}
Emails == {"admin@school.com", "new@school.com"}
RoleInputs == UserRole \cup {"janitor"}

\* A request is taken.
Taken ==
    /\ last.op = "idle"
    /\ served < MaxRequests
    /\ served' = served + 1
    /\ UNCHANGED <<tokens, mailbox>>

CreateDepartment ==
    Taken /\ \E u \in Accounts : create_department(u, "CompSci")

CreateClass ==
    Taken /\ \E u \in Accounts, d \in DepartmentIds : create_class(u, "CS-101", d)

CreateSchedule ==
    Taken /\ \E u \in Accounts, c \in ClassIds :
                 create_schedule(u, Schedule(c, "t1", "Mathematics"))

Register ==
    Taken /\ \E u \in Accounts, e \in Emails, r \in RoleInputs :
                 register_user(u, UserCreate(e, "pw", r, "c1", "CS0002"))

AddStudent ==
    Taken /\ \E u \in Accounts, e \in Emails :
                 add_student(u, UserCreate(e, "pw", SUBADMIN, "c2", "CS0002"))

\* The class ids a teacher may send: the classes of the school and a string
\* that names no class.
ClassInputs == ClassIds \cup {"c:1"}

IssueOrg ==
    Taken /\ \E u \in Accounts, c \in ClassInputs, sub \in Subjects :
                 generate_qr_session(u, c, sub)

ScanOrg ==
    Taken /\ \E u \in Accounts, sid \in SessionIds, otp \in Codes :
                 scan_qr_code(u, sid, otp)

VerifyOrg ==
    Taken /\ \E u \in Accounts, sid \in SessionIds, otp \in Codes :
                 verify_otp(u, sid, otp)

DeliverOrg == Deliver

NextOrg ==
    \/ CreateDepartment
    \/ CreateClass
    \/ CreateSchedule
    \/ Register
    \/ AddStudent
    \/ IssueOrg
    \/ ScanOrg
    \/ VerifyOrg
    \/ DeliverOrg

SpecOrg == InitOrg /\ [][NextOrg]_vars

------------------------------------------------------------------------------
(* Concurrent registrations.  register_user and add_student await the     *)
(* lookup of the email and then the insert of the account.                *)

\* register_user up to the insert: the role check, the lookup of the email
\* and the construction of the account.
register_find(p, current_user, user_data) ==
    LET ps == Begin(p, "register", current_user, user_data)
        user_obj == User(uuid4("u" \o ToString(p) \o "-", users), user_data.email,
                         user_data.role, user_data.class_id, user_data.roll_no,
                         get_password_hash(user_data.password))
    IN  /\ ~InFlight(p)
        /\ procs' =
              IF ~require_role(current_user, {SUPERADMIN, SUBADMIN})
              THEN Return(ps, p, 403, "Not enough permissions")
              ELSE IF find_by_email(users, user_data.email) # 0
              THEN Return(ps, p, 400, "Email already registered")
              ELSE Suspend([ps EXCEPT ![p].doc = user_obj], p, "r_insert")
        /\ UNCHANGED <<stores, now, last>>

\* db.users.insert_one and the response
register_insert(p) ==
    /\ procs[p].pc = "r_insert"
    /\ Len(users) < MaxUsers
    /\ users' = insert_one(users, procs[p].doc)
    /\ procs' = Return(procs, p, 200, "OK")
    /\ UNCHANGED <<departments, classes, schedules, qr_sessions, otp_requests,
                   attendance, tasks, now, last>>

\* add_student up to the insert.
add_student_find(p, current_user, student_data) ==
    LET ps == Begin(p, "add_student", current_user, student_data)
        user_obj == User(uuid4("u" \o ToString(p) \o "-", users), student_data.email,
                         STUDENT, current_user.class_id, student_data.roll_no, None)
    IN  /\ ~InFlight(p)
        /\ procs' =
              IF ~require_role(current_user, {CLASS_TEACHER})
              THEN Return(ps, p, 403, "Not enough permissions")
              ELSE IF find_by_email(users, student_data.email) # 0
              THEN Return(ps, p, 400, "Student already exists")
              ELSE Suspend([ps EXCEPT ![p].doc = user_obj], p, "a_insert")
        /\ UNCHANGED <<stores, now, last>>

add_student_insert(p) ==
    /\ procs[p].pc = "a_insert"
    /\ Len(users) < MaxUsers
    /\ users' = insert_one(users, procs[p].doc)
    /\ procs' = Return(procs, p, 200, "OK")
    /\ UNCHANGED <<departments, classes, schedules, qr_sessions, otp_requests,
                   attendance, tasks, now, last>>

InitReg ==
    /\ users = Staff
    /\ departments = <<>>
    /\ classes = <<>>
    /\ schedules = <<>>
    /\ qr_sessions = <<>>
    /\ otp_requests = <<>>
    /\ attendance = <<>>
    /\ tasks = <<>>
    /\ now = 0
    /\ last = Idle
    /\ procs = [p \in ProcIds |-> IdleProc]
    /\ served = 0
    /\ tokens = {}
    /\ mailbox = {}

\* The callers of the registrations: an admin, the class teacher, a student.
Registrars == {u \in Accounts : u.id \in {"admin", "t1", "s1"}}

RegisterFind(p) ==
    \E u \in Registrars, e \in Emails :
        register_find(p, u, UserCreate(e, "pw", STUDENT, "c1", "CS0002"))

AddStudentFind(p) ==
    \E u \in Registrars, e \in Emails :
        add_student_find(p, u, UserCreate(e, "pw", None, None, "CS0002"))

StepReg(p) ==
    \/ RegisterFind(p)
    \/ register_insert(p)
    \/ AddStudentFind(p)
    \/ add_student_insert(p)

NextReg == (\E p \in DOMAIN procs : StepReg(p)) /\ UNCHANGED <<served, tokens, mailbox>>

SpecReg == InitReg /\ [][NextReg]_vars

------------------------------------------------------------------------------
(* Logins and the protected operations called with the tokens they issue, *)
(* one request at a time, over three days                                 *)

LoginEmails == {"admin@school.com", "t1@school.com", "s1@school.com", "new@school.com"}
Passwords == {"pw", "admin123"}
Rolls == {"CS0001", "CS0002"}
StudentEmails == {"s1@school.com", "new@school.com"}

\* A string that is no token.
Malformed == [sub |-> None, exp |-> 0, sig |-> <<>>]

\* The tokens a client can present: the tokens issued, copies of them whose
\* claims were altered, tokens signed with another key, and garbage.
Presented ==
    tokens
    \cup {[tok EXCEPT !.exp = tok.exp + ACCESS_TOKEN_EXPIRE_MINUTES] : tok \in tokens}
    \cup {[tok EXCEPT !.sub = "ghost"] : tok \in tokens}
    \cup {[tok EXCEPT !.sub = None] : tok \in tokens}
    \cup {jwt_encode([sub |-> u.id, exp |-> now + ACCESS_TOKEN_EXPIRE_MINUTES],
                      "guessed-key") : u \in Accounts}
    \cup {Malformed}

\* A protected operation: the token is validated, then the handler runs for
\* the account it names.
Protected(op, token, Handler(_)) ==
    LET i == get_current_user(users, token, now)
    IN  IF i = 0
        THEN /\ last' = Unauthorized(op, token)
             /\ UNCHANGED <<stores, now, procs>>
        ELSE Handler(users[i])

TakenAuth ==
    /\ last.op = "idle"
    /\ served < MaxRequests
    /\ served' = served + 1
    /\ UNCHANGED mailbox

\* Half a token lifetime passes.
Elapse ==
    /\ last.op = "idle"
    /\ now + ACCESS_TOKEN_EXPIRE_MINUTES \div 2 <= MaxClock
    /\ now' = now + ACCESS_TOKEN_EXPIRE_MINUTES \div 2
    /\ UNCHANGED <<stores, last, procs, served, tokens, mailbox>>

Login == TakenAuth /\ \E e \in LoginEmails, pw \in Passwords : login(e, pw)

StudentLogin == TakenAuth /\ \E r \in Rolls, e \in StudentEmails : student_login(r, e)

Me == TakenAuth /\ \E tok \in Presented : get_current_user_info(tok)

RegisterAuth ==
    /\ TakenAuth
    /\ \E tok \in Presented :
           Protected("register", tok,
                     LAMBDA u : register_user(u, UserCreate("new@school.com", "pw",
                                                            STUDENT, "c1", "CS0002")))
    /\ UNCHANGED tokens

AddStudentAuth ==
    /\ TakenAuth
    /\ \E tok \in Presented :
           Protected("add_student", tok,
                     LAMBDA u : add_student(u, UserCreate("new@school.com", "pw",
                                                          None, None, "CS0002")))
    /\ UNCHANGED tokens

DeliverAuth == Deliver

NextAuth ==
    \/ Login
    \/ StudentLogin
    \/ Me
    \/ RegisterAuth
    \/ AddStudentAuth
    \/ Elapse
    \/ DeliverAuth

SpecAuth == InitOrg /\ [][NextAuth]_vars

------------------------------------------------------------------------------
(* Process starts on a store that begins empty, interleaved with the      *)
(* registrations the accounts then make                                   *)

Started(detail) == Response("startup", None, None, 0, detail)

create_default_admin_always ==
    /\ users' = insert_one(users, DefaultAdmin)
    /\ last' = Started("created")
    /\ UNCHANGED <<departments, classes, schedules, qr_sessions, otp_requests,
                   attendance, tasks, now, procs>>

\* The startup hook: the default superadmin is inserted when the store holds
\* no account of role superadmin.
create_default_admin ==
    IF find_one(users, LAMBDA d : d.role = SUPERADMIN) = 0
    THEN /\ users' = insert_one(users, DefaultAdmin)
         /\ last' = Started("created")
         /\ UNCHANGED <<departments, classes, schedules, qr_sessions, otp_requests,
                        attendance, tasks, now, procs>>
    ELSE /\ last' = Started("exists")
         /\ UNCHANGED <<stores, now, procs>>

InitBoot ==
    /\ users = <<>>
    /\ departments = <<>>
    /\ classes = <<>>
    /\ schedules = <<>>
    /\ qr_sessions = <<>>
    /\ otp_requests = <<>>
    /\ attendance = <<>>
    /\ tasks = <<>>
    /\ now = 0
    /\ last = Idle
    /\ procs = NoProcs
    /\ served = 0
    /\ tokens = {}
    /\ mailbox = {}

Start == Taken /\ create_default_admin

RegisterBoot ==
    Taken /\ \E u \in Accounts, e \in Emails, r \in RoleInputs :
                 register_user(u, UserCreate(e, "pw", r, "c1", None))

AddStudentBoot ==
    Taken /\ \E u \in Accounts, e \in Emails :
                 add_student(u, UserCreate(e, "pw", None, None, "CS0002"))

DeliverBoot == Deliver

NextBoot == Start \/ RegisterBoot \/ AddStudentBoot \/ DeliverBoot

SpecBoot == InitBoot /\ [][NextBoot]_vars

------------------------------------------------------------------------------
(* Vocabulary of the claims *)

UserById(id) == CHOOSE u \in Accounts : u.id = id

\* This step handles a request of the given operation.
Handles(op) == last.op = "idle" /\ last'.op = op

\* The attendance documents of a (student, session) pair.
RecordsOf(student_id, qr_session_id) ==
    {i \in 1..Len(attendance) : /\ attendance[i].student_id = student_id
                                /\ attendance[i].qr_session_id = qr_session_id}

\* The challenges of a (student, session) pair carrying a code.
ChallengesOf(student_id, qr_session_id, otp) ==
    {i \in 1..Len(otp_requests) : /\ otp_requests[i].student_id = student_id
                                  /\ otp_requests[i].qr_session_id = qr_session_id
                                  /\ otp_requests[i].otp = otp}

SessionOf(qr_session_id) ==
    {i \in 1..Len(qr_sessions) : qr_sessions[i].id = qr_session_id}

------------------------------------------------------------------------------
(* Claims *)

\* C1: requests handled one at a time never leave more than one attendance
\* record for a (student, session) pair.
C1_OneRecordPerPair ==
    \A u \in Accounts, sid \in SessionIds :
        Cardinality(RecordsOf(u.id, sid)) <= 1

\* C3: once a verification has succeeded with (student, session, code), so
\* that a consumed challenge carries that triple, every later verification
\* with the same triple fails with "Invalid OTP" and inserts no record.
C3_ReplayFails ==
    [][ (/\ Handles("verify")
         /\ \E i \in ChallengesOf(last'.user, last'.req.qr_session_id,
                                   last'.req.otp) : otp_requests[i].verified)
        => (/\ last'.status = 400
            /\ last'.detail = "Invalid OTP"
            /\ attendance' = attendance) ]_vars

\* C4: a verification with the code of an unconsumed challenge, made later
\* than that challenge's expires_at, fails with "OTP has expired", inserts
\* no record and leaves the challenges as they were.
C4_ExpiredChallenge ==
    [][ (/\ Handles("verify")
         /\ \E i \in ChallengesOf(last'.user, last'.req.qr_session_id,
                                   last'.req.otp) :
                /\ ~otp_requests[i].verified
                /\ now > otp_requests[i].expires_at)
        => (/\ last'.status = 400
            /\ last'.detail = "OTP has expired"
            /\ UNCHANGED stores) ]_vars

C4_Witness ==
    /\ last.op = "verify"
    /\ last.detail = "OTP has expired"
    /\ \E i \in ChallengesOf(last.user, last.req.qr_session_id, last.req.otp) :
           ~otp_requests[i].verified /\ now > otp_requests[i].expires_at

\* C5: a student's scan of a session made later than the session's
\* expires_at fails with "QR code has expired", creates no challenge and
\* queues no notification.
C5_ExpiredSession ==
    [][ (/\ Handles("scan")
         /\ UserById(last'.user).role = STUDENT
         /\ \E i \in SessionOf(last'.req.qr_session_id) :
                now > qr_sessions[i].expires_at)
        => (/\ last'.status = 400
            /\ last'.detail = "QR code has expired"
            /\ UNCHANGED stores) ]_vars

C5_Witness ==
    /\ last.op = "scan"
    /\ last.detail = "QR code has expired"
    /\ UserById(last.user).role = STUDENT
    /\ \E i \in SessionOf(last.req.qr_session_id) : now > qr_sessions[i].expires_at

\* C6 as stated: a student of another class than the session's gets 403 from
\* scan and from verify, whatever the state of the session and the code, and
\* nothing is written.
C6_OtherClassForbidden ==
    [][ (/\ Handles("scan") \/ Handles("verify")
         /\ UserById(last'.user).role = STUDENT
         /\ \E i \in SessionOf(last'.req.qr_session_id) :
                UserById(last'.user).class_id # qr_sessions[i].class_id)
        => (last'.status = 403 /\ UNCHANGED stores) ]_vars

\* C6 amended: a student of another class than the session's is refused and
\* nothing is written: scan answers 403 "Not enrolled in this class" while
\* the session has not expired and "QR code has expired" afterwards; verify
\* answers "Invalid OTP" for every code.
C6_OtherClassRefused ==
    [][ (/\ Handles("scan") \/ Handles("verify")
         /\ UserById(last'.user).role = STUDENT
         /\ \E i \in SessionOf(last'.req.qr_session_id) :
                UserById(last'.user).class_id # qr_sessions[i].class_id)
        => (/\ UNCHANGED stores
            /\ last'.op = "scan" =>
                   \A i \in SessionOf(last'.req.qr_session_id) :
                       IF now > qr_sessions[i].expires_at
                       THEN last'.status = 400 /\ last'.detail = "QR code has expired"
                       ELSE last'.status = 403
                            /\ last'.detail = "Not enrolled in this class"
            /\ last'.op = "verify" =>
                   last'.status = 400 /\ last'.detail = "Invalid OTP") ]_vars

C6_Witness ==
    /\ last.op = "scan"
    /\ last.status = 403
    /\ last.detail = "Not enrolled in this class"
    /\ \E i \in SessionOf(last.req.qr_session_id) :
           /\ UserById(last.user).class_id # qr_sessions[i].class_id
           /\ now <= qr_sessions[i].expires_at

\* C7: once an attendance record of (student, session) is stored, every scan
\* of that session by that student, while the session has not expired, fails
\* with "Attendance already marked" and creates no challenge.
C7_AlreadyMarked ==
    [][ (/\ Handles("scan")
         /\ RecordsOf(last'.user, last'.req.qr_session_id) # {}
         /\ \E i \in SessionOf(last'.req.qr_session_id) :
                now <= qr_sessions[i].expires_at)
        => (/\ last'.status = 400
            /\ last'.detail = "Attendance already marked"
            /\ otp_requests' = otp_requests
            /\ tasks' = tasks) ]_vars

C7_Witness ==
    /\ last.op = "scan"
    /\ last.detail = "Attendance already marked"
    /\ RecordsOf(last.user, last.req.qr_session_id) # {}

\* C8: a verification with the code of an unconsumed challenge of the caller,
\* made no later than that challenge's expires_at, succeeds, appends exactly
\* one attendance record built from the caller and the session, with status
\* "present", and sets verified on one matching challenge.
C8_VerifySucceeds ==
    [][ (/\ Handles("verify")
         /\ \E i \in ChallengesOf(last'.user, last'.req.qr_session_id,
                                   last'.req.otp) :
                /\ ~otp_requests[i].verified
                /\ now <= otp_requests[i].expires_at)
        => (/\ last'.status = 200
            /\ \E s \in SessionOf(last'.req.qr_session_id) :
                   attendance' =
                       Append(attendance,
                              [student_id |-> last'.user,
                               class_id |-> qr_sessions[s].class_id,
                               teacher_id |-> qr_sessions[s].teacher_id,
                               subject |-> qr_sessions[s].subject,
                               date |-> now,
                               status |-> "present",
                               qr_session_id |-> last'.req.qr_session_id])
            /\ \E i \in ChallengesOf(last'.user, last'.req.qr_session_id,
                                      last'.req.otp) :
                   /\ ~otp_requests[i].verified
                   /\ otp_requests' = [otp_requests EXCEPT ![i].verified = TRUE]) ]_vars

\* Two requests of the processes p and q, both finished, ran concurrently.
Overlapped(p, q) ==
    /\ p # q
    /\ ~InFlight(p) /\ ~InFlight(q)
    /\ procs[p].overlapped /\ procs[q].overlapped

ConsumedOf(student_id, qr_session_id) ==
    {i \in 1..Len(otp_requests) : /\ otp_requests[i].student_id = student_id
                                  /\ otp_requests[i].qr_session_id = qr_session_id
                                  /\ otp_requests[i].verified}

\* C2: when two concurrent verifications of one student for one session,
\* carrying different codes, have both finished successfully, exactly one
\* attendance record of that (student, session) pair exists.
C2_ConcurrentVerifyOneRecord ==
    \A p \in DOMAIN procs, q \in DOMAIN procs :
        (/\ Overlapped(p, q)
         /\ procs[p].resp.op = "verify" /\ procs[q].resp.op = "verify"
         /\ procs[p].resp.status = 200 /\ procs[q].resp.status = 200
         /\ procs[p].resp.user = procs[q].resp.user
         /\ procs[p].resp.req.qr_session_id = procs[q].resp.req.qr_session_id
         /\ procs[p].resp.req.otp # procs[q].resp.req.otp)
        => Cardinality(RecordsOf(procs[p].resp.user,
                                 procs[p].resp.req.qr_session_id)) = 1

\* C9: whenever no request is in flight, every attendance record of a
\* (student, session) pair is matched by a consumed challenge of that pair:
\* no record is left beside the unconsumed challenge that produced it, and
\* a retry adds no record.
C9_RecordMeansConsumed ==
    (\A p \in DOMAIN procs : ~InFlight(p))
    => \A u \in Students, sid \in SessionIds :
           Cardinality(RecordsOf(u.id, sid)) <= Cardinality(ConsumedOf(u.id, sid))

\* The roles that may call each operation that writes.
AllowedRoles(op) ==
    CASE op = "create_department" -> {SUPERADMIN}
      [] op = "create_class" -> {SUBADMIN}
      [] op = "create_schedule" -> {SUBADMIN}
      [] op = "register" -> {SUPERADMIN, SUBADMIN}
      [] op = "add_student" -> {CLASS_TEACHER}
      [] op = "generate" -> {CLASS_TEACHER, SUB_TEACHER}
      [] op = "scan" -> {STUDENT}
      [] op = "verify" -> {STUDENT}

WritingOps ==
    {"create_department", "create_class", "create_schedule", "register",
     "add_student", "generate", "scan", "verify"}

\* C10: an operation that writes succeeds only for a caller whose role is in
\* its allowed set; a caller of any other role gets 403 "Not enough
\* permissions" and no collection changes.
C10_RoleGate ==
    [][ \A op \in WritingOps :
            Handles(op) =>
                IF UserById(last'.user).role \in AllowedRoles(op)
                THEN TRUE
                ELSE /\ last'.status = 403
                     /\ last'.detail = "Not enough permissions"
                     /\ UNCHANGED stores ]_vars

C10_Witness ==
    /\ last.op = "create_department"
    /\ UserById(last.user).role = STUDENT
    /\ last.status = 403
    /\ departments = <<>>

\* C11: the role check comes before every lookup: a caller whose role is not
\* allowed for an operation gets 403 "Not enough permissions", never 404,
\* 400 or 409, whether or not the session, department or email it names
\* exists.
C11_RoleCheckFirst ==
    [][ \A op \in WritingOps :
            (Handles(op) /\ UserById(last'.user).role \notin AllowedRoles(op))
            => (/\ last'.status \notin {400, 404, 409}
                /\ last'.status = 403
                /\ last'.detail = "Not enough permissions") ]_vars

C11_Witness ==
    /\ last.op = "scan"
    /\ UserById(last.user).role # STUDENT
    /\ SessionOf(last.req.qr_session_id) = {}
    /\ last.status = 403

\* C12: a class teacher who asks for a session of another class than their
\* own gets 403 and no session is inserted; every stored session issued by a
\* class teacher is a session of that teacher's class.
C12_OwnClassOnly ==
    /\ [](\A i \in 1..Len(qr_sessions) :
             UserById(qr_sessions[i].teacher_id).role = CLASS_TEACHER
             => qr_sessions[i].class_id = UserById(qr_sessions[i].teacher_id).class_id)
    /\ [][ (/\ Handles("generate")
            /\ UserById(last'.user).role = CLASS_TEACHER
            /\ UserById(last'.user).class_id # last'.req.class_id)
           => (/\ last'.status = 403
               /\ UNCHANGED stores) ]_vars

C12_Witness ==
    /\ last.op = "generate"
    /\ UserById(last.user).role = CLASS_TEACHER
    /\ UserById(last.user).class_id # last.req.class_id
    /\ last.status = 403
    /\ last.detail = "Not assigned to this class"
    /\ qr_sessions = <<>>

\* C13: no two accounts share an email, also when registrations with the
\* same email run concurrently.
C13_EmailUnique ==
    \A i \in 1..Len(users), j \in 1..Len(users) :
        i # j => users[i].email # users[j].email

\* The student accounts a (roll, email) pair matches.
StudentsMatching(roll_no, email) ==
    {i \in 1..Len(users) : /\ users[i].role = STUDENT
                           /\ users[i].roll_no = roll_no
                           /\ users[i].email = email}

\* C14: a student login with the roll and email of a student account
\* succeeds and returns a token, now issued, whose subject is that account's
\* id; a login with a pair that matches no student account fails with 401
\* and issues no token.
C14_StudentLogin ==
    [][ Handles("student_login") =>
            IF StudentsMatching(last'.req.roll_no, last'.req.email) # {}
            THEN /\ last'.status = 200
                 /\ last'.detail.token_type = "bearer"
                 /\ last'.detail.access_token \in tokens'
                 /\ \A i \in StudentsMatching(last'.req.roll_no, last'.req.email) :
                        last'.detail.access_token.sub = users[i].id
            ELSE /\ last'.status = 401
                 /\ tokens' = tokens ]_vars

\* A student registered by a class teacher has logged in.
C14_Witness ==
    /\ last.op = "student_login"
    /\ last.status = 200
    /\ \E i \in StudentsMatching(last.req.roll_no, last.req.email) :
           /\ users[i].email = "new@school.com"
           /\ users[i].hashed_password = None
           /\ last.detail.access_token.sub = users[i].id

\* C15: a password login with the email of a student account fails with 401
\* and issues no token, whatever the password and however the account was
\* created.
C15_NoPasswordLoginForStudents ==
    [][ (/\ Handles("login")
         /\ \E i \in 1..Len(users) : /\ users[i].email = last'.req.email
                                      /\ users[i].role = STUDENT)
        => (/\ last'.status = 401
            /\ tokens' = tokens) ]_vars

\* The token was issued by a login no more than 24 hours ago and names an
\* account of the store.
Accepted(tok) ==
    /\ tok \in tokens
    /\ now - (tok.exp - ACCESS_TOKEN_EXPIRE_MINUTES) <= 24 * 60
    /\ \E i \in 1..Len(users) : users[i].id = tok.sub

\* C16: a protected operation accepts a token exactly when the token was
\* issued by a login at most 24 hours ago and names a stored account; any
\* other token is answered 401 and nothing is written.
C16_TokenValidation ==
    [][ /\ Handles("me") =>
               /\ last'.status \in {200, 401}
               /\ last'.status = 200 <=> Accepted(last'.req.token)
               /\ last'.status = 200 => last'.user = last'.req.token.sub
        /\ \A op \in {"me", "register", "add_student"} :
               (Handles(op) /\ last'.status = 401) => UNCHANGED stores
        /\ \A op \in {"register", "add_student"} :
               (Handles(op) /\ last'.status # 401) =>
                   \E tok \in tokens : Accepted(tok) /\ tok.sub = last'.user ]_vars

\* A token a login issued is refused once more than 24 hours have passed.
C16_Witness ==
    /\ last.op = "me"
    /\ last.status = 401
    /\ last.req.token \in tokens
    /\ now > last.req.token.exp

\* str.split: the parts of a string between the occurrences of sep.
RECURSIVE split(_, _)
split(str, sep) ==
    IF \A k \in 1..Len(str) : str[k] # sep
    THEN <<str>>
    ELSE LET k == CHOOSE k \in 1..Len(str) :
                      str[k] = sep /\ \A j \in 1..(k - 1) : str[j] # sep
         IN  <<SubSeq(str, 1, k - 1)>> \o split(SubSeq(str, k + 1, Len(str)), sep)

\* C17: splitting the payload of a stored session on ":" gives four parts:
\* "attendance", the session's id, its class id and its issuer's id.
C17_PayloadRoundTrip ==
    \A i \in 1..Len(qr_sessions) :
        split(qr_sessions[i].qr_data, ":") =
            << <<"attendance">>,
               Pieces(ToString(qr_sessions[i].id)),
               Pieces(qr_sessions[i].class_id),
               Pieces(qr_sessions[i].teacher_id) >>

\* C18: a successful scan stores its challenge and queues, in the same step,
\* exactly one notification with that challenge's code for the caller's
\* email; every queued notification belongs to a stored challenge; and a
\* notification that is sent, fails or is lost changes neither the stored
\* challenges nor the response of any request.
C18_FireAndForget ==
    /\ [](\A k \in 1..Len(tasks) :
             \E i \in 1..Len(otp_requests) :
                 /\ otp_requests[i].otp = tasks[k].otp
                 /\ UserById(otp_requests[i].student_id).email = tasks[k].email)
    /\ [][ /\ \A p \in DOMAIN procs :
                  (/\ procs[p].pc = "s_insert"
                   /\ procs'[p].pc = "idle"
                   /\ procs'[p].resp.status = 200)
                  => (/\ otp_requests' = Append(otp_requests, procs[p].doc)
                      /\ tasks' = Append(tasks, [email |-> procs[p].user.email,
                                                 otp |-> procs[p].doc.otp])
                      /\ mailbox' = mailbox)
           /\ Len(tasks') < Len(tasks)
                  => (/\ otp_requests' = otp_requests
                      /\ attendance' = attendance
                      /\ procs' = procs) ]_vars

\* The notification of a stored challenge was lost; the scan had answered 200.
C18_Witness ==
    /\ tasks = <<>>
    /\ mailbox = {}
    /\ Len(otp_requests) = 1
    /\ \E p \in DOMAIN procs :
           /\ ~InFlight(p)
           /\ procs[p].resp.op = "scan"
           /\ procs[p].resp.status = 200

\* C19: no attendance record of a session carries a date later than the
\* session's expires_at.
C19_NoRecordAfterSessionExpiry ==
    \A i \in 1..Len(attendance) :
        \A s \in SessionOf(attendance[i].qr_session_id) :
            attendance[i].date <= qr_sessions[s].expires_at

\* The unconsumed challenges of a (student, session) pair.
UnconsumedOf(otps, student_id, qr_session_id) ==
    {i \in 1..Len(otps) : /\ otps[i].student_id = student_id
                          /\ otps[i].qr_session_id = qr_session_id
                          /\ ~otps[i].verified}

\* C20: when a verification of (student, session) has succeeded, at most
\* one unconsumed challenge of that pair is left.
C20_OneUnconsumedLeft ==
    [][ (Handles("verify") /\ last'.status = 200)
        => Cardinality(UnconsumedOf(otp_requests', last'.user,
                                    last'.req.qr_session_id)) <= 1 ]_vars

Superadmins(us) == {i \in 1..Len(us) : us[i].role = SUPERADMIN}

\* C21: a start inserts the default superadmin exactly when the store holds
\* no superadmin, so a superadmin exists after every start; and the store
\* never holds two accounts with the default email.
C21_Bootstrap ==
    /\ [](Cardinality({i \in 1..Len(users) :
                           users[i].email = DefaultAdmin.email}) <= 1)
    /\ [][ Handles("startup") =>
               /\ users' = IF Superadmins(users) = {}
                           THEN Append(users, DefaultAdmin)
                           ELSE users
               /\ Superadmins(users') # {} ]_vars

\* A later start found the superadmin and other accounts, and inserted nothing.
C21_Witness ==
    /\ last.op = "startup"
    /\ last.detail = "exists"
    /\ Len(users) >= 2
    /\ Cardinality({i \in 1..Len(users) : users[i].email = DefaultAdmin.email}) = 1

\* C22: when two concurrent verifications of one student for one session
\* carry the same code, and one challenge carries that code, at most one of
\* them succeeds and one attendance record of the pair is inserted.
C22_SameCodeOnce ==
    \A p \in DOMAIN procs, q \in DOMAIN procs :
        (/\ Overlapped(p, q)
         /\ procs[p].resp.op = "verify" /\ procs[q].resp.op = "verify"
         /\ procs[p].resp.user = procs[q].resp.user
         /\ procs[p].resp.req = procs[q].resp.req
         /\ Cardinality(ChallengesOf(procs[p].resp.user,
                                     procs[p].resp.req.qr_session_id,
                                     procs[p].resp.req.otp)) = 1)
        => (/\ ~(procs[p].resp.status = 200 /\ procs[q].resp.status = 200)
            /\ Cardinality(RecordsOf(procs[p].resp.user,
                                     procs[p].resp.req.qr_session_id)) <= 1)

\* C23: no challenge of a (student, session) pair is inserted once an
\* attendance record of that pair is stored.
C23_NoChallengeAfterRecord ==
    [][ Len(otp_requests') > Len(otp_requests) =>
            LET d == otp_requests'[Len(otp_requests')]
            IN  RecordsOf(d.student_id, d.qr_session_id) = {} ]_vars

\* The challenges of a pair that are neither consumed nor expired.
LiveOf(student_id, qr_session_id) ==
    {i \in 1..Len(otp_requests) : /\ otp_requests[i].student_id = student_id
                                  /\ otp_requests[i].qr_session_id = qr_session_id
                                  /\ ~otp_requests[i].verified
                                  /\ now <= otp_requests[i].expires_at}

\* C24: while none of the challenges of a (student, session) pair is
\* consumed, a verification succeeds only with the code of the pair's most
\* recently created unexpired challenge; any other code gets "Invalid OTP".
C24_LastCodeWins ==
    [][ (/\ Handles("verify")
         /\ ConsumedOf(last'.user, last'.req.qr_session_id) = {}
         /\ LiveOf(last'.user, last'.req.qr_session_id) # {})
        => LET live == LiveOf(last'.user, last'.req.qr_session_id)
               newest == CHOOSE i \in live : \A j \in live : j <= i
           IN  IF last'.req.otp = otp_requests[newest].otp
               THEN last'.status = 200
               ELSE last'.status = 400 /\ last'.detail = "Invalid OTP" ]_vars

\* coll is kept as the beginning of coll2: documents are only appended.
Extends(coll, coll2) ==
    Len(coll2) >= Len(coll) /\ SubSeq(coll2, 1, Len(coll)) = coll

\* C25: no step removes or changes a stored session or attendance record;
\* no step removes a challenge, and the only change to a stored challenge is
\* its verified flag going from FALSE to TRUE.
C25_LifecycleFrame ==
    [][ /\ Extends(qr_sessions, qr_sessions')
        /\ Extends(attendance, attendance')
        /\ Len(otp_requests') >= Len(otp_requests)
        /\ \A i \in 1..Len(otp_requests) :
               \/ otp_requests'[i] = otp_requests[i]
               \/ /\ ~otp_requests[i].verified
                  /\ otp_requests'[i] = [otp_requests[i] EXCEPT !.verified = TRUE] ]_vars

\* A verification has consumed a challenge beside a session and a record.
C25_Witness ==
    /\ last.op = "verify"
    /\ last.status = 200
    /\ \E i \in 1..Len(otp_requests) : otp_requests[i].verified
    /\ Len(otp_requests) >= 2
    /\ attendance # <<>>

\* C26: a successful generate appends one session whose teacher is the
\* caller, whose class and subject are the arguments and which expires 15
\* minutes after the request, returns its id and expiry and changes no other
\* collection; the class id need not name a stored class.
C26_IssueFrame ==
    [][ (Handles("generate") /\ last'.status = 200)
        => (/\ Len(qr_sessions') = Len(qr_sessions) + 1
            /\ Extends(qr_sessions, qr_sessions')
            /\ LET session == qr_sessions'[Len(qr_sessions')]
               IN  /\ session.teacher_id = last'.user
                   /\ session.class_id = last'.req.class_id
                   /\ session.subject = last'.req.subject
                   /\ session.expires_at = now + 15
                   /\ session.id = last'.req.session_id
                   /\ session.expires_at = last'.req.expires_at
                   /\ \A i \in 1..Len(qr_sessions) : qr_sessions[i].id # session.id
            /\ UNCHANGED <<users, departments, classes, schedules, otp_requests,
                           attendance, tasks>>) ]_vars

\* A session was issued for a class id that names no stored class.
C26_Witness ==
    /\ last.op = "generate"
    /\ last.status = 200
    /\ Len(qr_sessions) = 1
    /\ \A i \in 1..Len(classes) : classes[i].id # last.req.class_id

\* C27: a successful scan appends one challenge of the caller for the
\* session, unconsumed and expiring 5 minutes after the request, and changes
\* no account, session, record or stored challenge; concurrent scans of a
\* student for an unexpired session of the student's class, with no
\* attendance record of the pair stored, all succeed and each inserts a
\* challenge of its own.
C27_ScanFrame ==
    /\ [](\A p \in DOMAIN procs, q \in DOMAIN procs :
             (/\ Overlapped(p, q)
              /\ procs[p].resp.op = "scan" /\ procs[q].resp.op = "scan"
              /\ procs[p].resp.user = procs[q].resp.user
              /\ procs[p].resp.req = procs[q].resp.req
              /\ \E s \in SessionOf(procs[p].resp.req.qr_session_id) :
                     /\ now <= qr_sessions[s].expires_at
                     /\ UserById(procs[p].resp.user).class_id = qr_sessions[s].class_id
              /\ RecordsOf(procs[p].resp.user, procs[p].resp.req.qr_session_id) = {})
             => (/\ procs[p].resp.status = 200
                 /\ procs[q].resp.status = 200
                 /\ Cardinality({i \in 1..Len(otp_requests) :
                            /\ otp_requests[i].student_id = procs[p].resp.user
                            /\ otp_requests[i].qr_session_id =
                                   procs[p].resp.req.qr_session_id}) >= 2))
    /\ [][ \A p \in DOMAIN procs :
               (/\ procs[p].pc = "s_insert"
                /\ procs'[p].pc = "idle"
                /\ procs'[p].resp.status = 200)
               => (/\ Len(otp_requests') = Len(otp_requests) + 1
                   /\ Extends(otp_requests, otp_requests')
                   /\ LET d == otp_requests'[Len(otp_requests')]
                      IN  /\ d.student_id = procs[p].user.id
                          /\ d.qr_session_id = procs[p].req.qr_session_id
                          /\ d.verified = FALSE
                          /\ d.expires_at = now + 5
                   /\ UNCHANGED <<users, qr_sessions, attendance>>) ]_vars

\* Two concurrent scans of one student for one session have both succeeded.
C27_Witness ==
    \E p \in DOMAIN procs, q \in DOMAIN procs :
        /\ Overlapped(p, q)
        /\ procs[p].resp.op = "scan" /\ procs[q].resp.op = "scan"
        /\ procs[p].resp.user = procs[q].resp.user
        /\ procs[p].resp.req = procs[q].resp.req
        /\ procs[p].resp.status = 200 /\ procs[q].resp.status = 200

\* C28: a scan or a verification that fails changes no collection and
\* queues no notification.  A student's scan is answered by the first test
\* that fails, in the order: session unknown, session expired, student not
\* of the class, attendance already marked.  A student's verification is
\* answered "Invalid OTP" when no unconsumed challenge carries the code, and
\* "OTP has expired" only when one does.
C28_FailuresChangeNothing ==
    [][ /\ \A op \in {"scan", "verify"} :
               (Handles(op) /\ last'.status # 200) => UNCHANGED stores
        /\ (Handles("scan") /\ UserById(last'.user).role = STUDENT) =>
               LET sid == last'.req.qr_session_id
               IN  IF SessionOf(sid) = {}
                   THEN last'.status = 404 /\ last'.detail = "Invalid QR code"
                   ELSE IF \E s \in SessionOf(sid) : now > qr_sessions[s].expires_at
                   THEN last'.status = 400 /\ last'.detail = "QR code has expired"
                   ELSE IF \E s \in SessionOf(sid) :
                               UserById(last'.user).class_id # qr_sessions[s].class_id
                   THEN last'.status = 403
                        /\ last'.detail = "Not enrolled in this class"
                   ELSE IF RecordsOf(last'.user, sid) # {}
                   THEN last'.status = 400
                        /\ last'.detail = "Attendance already marked"
                   ELSE last'.status = 200
        /\ (Handles("verify") /\ UserById(last'.user).role = STUDENT) =>
               LET unconsumed ==
                       {i \in ChallengesOf(last'.user, last'.req.qr_session_id,
                                           last'.req.otp) : ~otp_requests[i].verified}
               IN  IF unconsumed = {}
                   THEN last'.status = 400 /\ last'.detail = "Invalid OTP"
                   ELSE \/ last'.status = 200
                        \/ /\ last'.status = 400
                           /\ last'.detail = "OTP has expired"
                           /\ \E i \in unconsumed : now > otp_requests[i].expires_at ]_vars

\* A student of another class scanned an expired session: the expiry answers.
C28_Witness ==
    /\ last.op = "scan"
    /\ last.status = 400
    /\ last.detail = "QR code has expired"
    /\ \E s \in SessionOf(last.req.qr_session_id) :
           UserById(last.user).class_id # qr_sessions[s].class_id

\* C29: every stored schedule names a stored class.
C29_ScheduleClassExists ==
    \A i \in 1..Len(schedules) :
        \E c \in 1..Len(classes) : classes[c].id = schedules[i].class_id

\* C30: the role of every stored account is one of the five roles.
C30_RoleIsKnown ==
    \A i \in 1..Len(users) : users[i].role \in UserRole

\* C31: an account created by add_student has role student and the class of
\* the calling class teacher, whatever role and class the request carried,
\* and is stored without a password hash.
C31_AddStudentAccount ==
    [][ (Handles("add_student") /\ last'.status = 200)
        => (/\ Len(users') = Len(users) + 1
            /\ Extends(users, users')
            /\ LET account == users'[Len(users')]
               IN  /\ account.email = last'.req.email
                   /\ account.roll_no = last'.req.roll_no
                   /\ account.role = STUDENT
                   /\ account.class_id = UserById(last'.user).class_id
                   /\ account.hashed_password = None) ]_vars

\* A student was added by a request that asked for another role and class.
C31_Witness ==
    /\ last.op = "add_student"
    /\ last.status = 200
    /\ last.req.role # STUDENT
    /\ last.req.class_id # UserById(last.user).class_id
    /\ users[Len(users)].email = last.req.email

\* C32: a verification that finds its challenge, unconsumed and unexpired,
\* and then finds no session document is answered 404; it inserts no record
\* and leaves the challenge unconsumed.
C32_SessionGone ==
    [][ \A p \in DOMAIN procs :
            (/\ procs[p].pc = "v_session"
             /\ SessionOf(procs[p].req.qr_session_id) = {}
             /\ procs'[p].pc # "v_session")
            => (/\ procs'[p].pc = "idle"
                /\ procs'[p].resp.status = 404
                /\ attendance' = attendance
                /\ otp_requests' = otp_requests) ]_vars

\* C33: every attendance record names a stored session and a stored student
\* account; its class and teacher are the session's, and its student is of
\* that class.
C33_RecordIntegrity ==
    \A i \in 1..Len(attendance) :
        /\ \E s \in SessionOf(attendance[i].qr_session_id) :
               /\ attendance[i].class_id = qr_sessions[s].class_id
               /\ attendance[i].teacher_id = qr_sessions[s].teacher_id
        /\ \E u \in Students :
               /\ u.id = attendance[i].student_id
               /\ u.class_id = attendance[i].class_id

\* A verification has stored a record while a student of another class is
\* registered.
C33_Witness ==
    /\ last.op = "verify"
    /\ last.status = 200
    /\ attendance # <<>>
    /\ attendance[Len(attendance)].student_id = last.user
    /\ \E u \in Students : u.class_id # attendance[Len(attendance)].class_id

\* C34: a registration by a subadmin that asks for role superadmin is
\* refused and inserts nothing.
C34_NoEscalation ==
    [][ (/\ Handles("register")
         /\ UserById(last'.user).role = SUBADMIN
         /\ last'.req.role = SUPERADMIN)
        => (/\ last'.status # 200
            /\ users' = users) ]_vars

\* C35: a verification by a student who holds no challenge with the code,
\* while another student holds one for the same session, is answered
\* "Invalid OTP", inserts no record and leaves every challenge as it was.
C35_BoundToStudent ==
    [][ (/\ Handles("verify")
         /\ UserById(last'.user).role = STUDENT
         /\ ChallengesOf(last'.user, last'.req.qr_session_id, last'.req.otp) = {}
         /\ \E i \in 1..Len(otp_requests) :
                /\ otp_requests[i].student_id # last'.user
                /\ otp_requests[i].qr_session_id = last'.req.qr_session_id
                /\ otp_requests[i].otp = last'.req.otp)
        => (/\ last'.status = 400
            /\ last'.detail = "Invalid OTP"
            /\ attendance' = attendance
            /\ otp_requests' = otp_requests) ]_vars

\* A student of the session's class used the unconsumed code of a classmate.
C35_Witness ==
    /\ last.op = "verify"
    /\ last.detail = "Invalid OTP"
    /\ ChallengesOf(last.user, last.req.qr_session_id, last.req.otp) = {}
    /\ \E i \in 1..Len(otp_requests) :
           /\ otp_requests[i].student_id # last.user
           /\ otp_requests[i].qr_session_id = last.req.qr_session_id
           /\ otp_requests[i].otp = last.req.otp
           /\ ~otp_requests[i].verified
    /\ \E s \in SessionOf(last.req.qr_session_id) :
           UserById(last.user).class_id = qr_sessions[s].class_id

====
